---- MODULE Spec2Model ----
(***************************************************************************)
(* Model of icco/scheduler (src/main.go, the latest revision, lines 1-253).*)
(*                                                                         *)
(* The program is an HTTP service.  GET /cron runs cronHandler: it loads   *)
(* the job list with GetConfig and, for every job, calls Job.Next with the *)
(* current time and logs the result.  Job.Run registers a task definition  *)
(* with the external task-execution service (ECS).                         *)
(*                                                                         *)
(* Job.Next delegates to github.com/robfig/cron (import path without a     *)
(* major version, i.e. the v1 API: package-level cron.Parse and            *)
(* SpecSchedule.Next).  The operators of the "cron library" section follow *)
(* that library: cron.Parse reads the fields as                            *)
(*   second minute hour day-of-month month [day-of-week]                   *)
(* and SpecSchedule.Next searches field by field up to five years ahead,   *)
(* returning the zero time when nothing is found.                          *)
(*                                                                         *)
(* Instants are UTC wall-clock records; ns is the sub-second part (0, or 1 *)
(* standing for any non-zero sub-second part).                             *)
(***************************************************************************)
EXTENDS Integers, Sequences

(***************************************************************************)
(* time.Time: calendar arithmetic as package time normalises it.           *)
(***************************************************************************)
Time(y, mo, d, h, mi, s, ns) ==
    [y |-> y, mo |-> mo, d |-> d, h |-> h, mi |-> mi, s |-> s, ns |-> ns]

\* time.Time{}: January 1, year 1, 00:00:00 UTC.
ZeroTime == Time(1, 1, 1, 0, 0, 0, 0)

IsZero(t) == t = ZeroTime

IsLeap(y) == (y % 4 = 0) /\ ((y % 100 # 0) \/ (y % 400 = 0))

DaysIn(y, mo) ==
    IF mo = 2 THEN (IF IsLeap(y) THEN 29 ELSE 28)
    ELSE IF mo \in {4, 6, 9, 11} THEN 30 ELSE 31

\* Days of the year before the first of month mo.
RECURSIVE DaysBeforeMonth(_, _)
DaysBeforeMonth(y, mo) ==
    IF mo = 1 THEN 0 ELSE DaysBeforeMonth(y, mo - 1) + DaysIn(y, mo - 1)

\* Days between 0001-01-01 and the date of t.
DayNumber(t) ==
    LET p == t.y - 1
    IN  365 * p + (p \div 4) - (p \div 100) + (p \div 400)
        + DaysBeforeMonth(t.y, t.mo) + (t.d - 1)

\* t.Weekday(): Sunday = 0 ... Saturday = 6 (0001-01-01 is a Monday).
Weekday(t) == (DayNumber(t) + 1) % 7

\* t.Before(u), compared field by field.
Before(t, u) ==
    LET a == <<t.y, t.mo, t.d, t.h, t.mi, t.s, t.ns>>
        b == <<u.y, u.mo, u.d, u.h, u.mi, u.s, u.ns>>
    IN  \E i \in 1..7 : a[i] < b[i] /\ \A k \in 1..(i - 1) : a[k] = b[k]

\* t.AddDate(0, 0, 1).
AddDay(t) ==
    IF t.d < DaysIn(t.y, t.mo) THEN [t EXCEPT !.d = t.d + 1]
    ELSE IF t.mo < 12 THEN [t EXCEPT !.d = 1, !.mo = t.mo + 1]
    ELSE [t EXCEPT !.d = 1, !.mo = 1, !.y = t.y + 1]

\* t.AddDate(0, 1, 0): the month is advanced and an overflowing day of the
\* month is normalised into the month after (October 31 -> December 1).
AddMonth(t) ==
    LET y2  == IF t.mo = 12 THEN t.y + 1 ELSE t.y
        mo2 == IF t.mo = 12 THEN 1 ELSE t.mo + 1
    IN  IF t.d <= DaysIn(y2, mo2) THEN [t EXCEPT !.y = y2, !.mo = mo2]
        ELSE [t EXCEPT !.y  = IF mo2 = 12 THEN y2 + 1 ELSE y2,
                       !.mo = IF mo2 = 12 THEN 1 ELSE mo2 + 1,
                       !.d  = t.d - DaysIn(y2, mo2)]

\* t.Add(1 * time.Hour), t.Add(1 * time.Minute), t.Add(1 * time.Second).
AddHour(t)   == IF t.h < 23 THEN [t EXCEPT !.h = t.h + 1]
                ELSE AddDay([t EXCEPT !.h = 0])
AddMinute(t) == IF t.mi < 59 THEN [t EXCEPT !.mi = t.mi + 1]
                ELSE AddHour([t EXCEPT !.mi = 0])
AddSecond(t) == IF t.s < 59 THEN [t EXCEPT !.s = t.s + 1]
                ELSE AddMinute([t EXCEPT !.s = 0])

(***************************************************************************)
(* The cron library as Job.Next uses it: cron.Parse and Schedule.Next.     *)
(* A rule is the sequence of its whitespace-separated fields; a field is a *)
(* wildcard, an integer, a range a-b, or a word that is none of these.     *)
(***************************************************************************)
Star        == [k |-> "star",  a |-> 0, b |-> 0]
Num(a)      == [k |-> "num",   a |-> a, b |-> a]
Range(a, b) == [k |-> "range", a |-> a, b |-> b]
Word        == [k |-> "word",  a |-> 0, b |-> 0]

\* getRange: the values of one field within the bounds lo..hi of its place,
\* and whether the field was written as a wildcard (the library's starBit).
getRange(f, lo, hi) ==
    IF f.k = "star" THEN [err |-> "nil", bits |-> lo..hi, star |-> TRUE]
    ELSE IF f.k = "word" THEN [err |-> "parse", bits |-> {}, star |-> FALSE]
    ELSE IF f.a < 0 \/ f.b < 0 THEN [err |-> "parse", bits |-> {}, star |-> FALSE]
    ELSE IF f.a < lo THEN [err |-> "parse", bits |-> {}, star |-> FALSE]
    ELSE IF f.b > hi THEN [err |-> "parse", bits |-> {}, star |-> FALSE]
    ELSE IF f.a > f.b THEN [err |-> "parse", bits |-> {}, star |-> FALSE]
    ELSE [err |-> "nil", bits |-> f.a..f.b, star |-> FALSE]

\* expandFields: cron.Parse's parser takes second, minute, hour, day of
\* month, month and an optional day of week, which defaults to "*".
expandFields(fields) ==
    IF Len(fields) = 5 THEN Append(fields, Star) ELSE fields

\* cron.Parse(spec): 5 or 6 fields, each within the bounds of its place.
Parse(spec) ==
    IF Len(spec) < 5 \/ Len(spec) > 6 THEN [err |-> "parse"]
    ELSE LET e      == expandFields(spec)
             second == getRange(e[1], 0, 59)
             minute == getRange(e[2], 0, 59)
             hour   == getRange(e[3], 0, 23)
             dom    == getRange(e[4], 1, 31)
             month  == getRange(e[5], 1, 12)
             dow    == getRange(e[6], 0, 6)
         IN  IF \E r \in {second, minute, hour, dom, month, dow} : r.err # "nil"
             THEN [err |-> "parse"]
             ELSE [err |-> "nil", Second |-> second, Minute |-> minute,
                   Hour |-> hour, Dom |-> dom, Month |-> month, Dow |-> dow]

\* A mutant of dayMatches: the two day fields always combined with AND.
dayMatchesAnd(s, t) == (t.d \in s.Dom.bits) /\ (Weekday(t) \in s.Dow.bits)

\* dayMatches: with a wildcard in either day field both must match (the
\* wildcard one always does); with both restricted either may match.
dayMatches(s, t) ==
    LET domMatch == t.d \in s.Dom.bits
        dowMatch == Weekday(t) \in s.Dow.bits
    IN  IF s.Dom.star \/ s.Dow.star THEN domMatch /\ dowMatch
        ELSE domMatch \/ dowMatch

\* The five search loops of SpecSchedule.Next.  Each returns the time it
\* stopped at, the "added" flag, and whether it wrapped around (goto WRAP).
RECURSIVE monthLoop(_, _, _)
monthLoop(s, t, added) ==
    IF t.mo \in s.Month.bits THEN [t |-> t, added |-> added, wrap |-> FALSE]
    ELSE LET t1 == IF added THEN t ELSE Time(t.y, t.mo, 1, 0, 0, 0, 0)
             t2 == AddMonth(t1)
         IN  IF t2.mo = 1 THEN [t |-> t2, added |-> TRUE, wrap |-> TRUE]
             ELSE monthLoop(s, t2, TRUE)

RECURSIVE dayLoop(_, _, _)
dayLoop(s, t, added) ==
    IF dayMatches(s, t) THEN [t |-> t, added |-> added, wrap |-> FALSE]
    ELSE LET t1 == IF added THEN t ELSE Time(t.y, t.mo, t.d, 0, 0, 0, 0)
             t2 == AddDay(t1)
         IN  IF t2.d = 1 THEN [t |-> t2, added |-> TRUE, wrap |-> TRUE]
             ELSE dayLoop(s, t2, TRUE)

RECURSIVE hourLoop(_, _, _)
hourLoop(s, t, added) ==
    IF t.h \in s.Hour.bits THEN [t |-> t, added |-> added, wrap |-> FALSE]
    ELSE LET t1 == IF added THEN t ELSE Time(t.y, t.mo, t.d, t.h, 0, 0, 0)
             t2 == AddHour(t1)
         IN  IF t2.h = 0 THEN [t |-> t2, added |-> TRUE, wrap |-> TRUE]
             ELSE hourLoop(s, t2, TRUE)

RECURSIVE minuteLoop(_, _, _)
minuteLoop(s, t, added) ==
    IF t.mi \in s.Minute.bits THEN [t |-> t, added |-> added, wrap |-> FALSE]
    ELSE LET t1 == IF added THEN t ELSE [t EXCEPT !.s = 0, !.ns = 0]
             t2 == AddMinute(t1)
         IN  IF t2.mi = 0 THEN [t |-> t2, added |-> TRUE, wrap |-> TRUE]
             ELSE minuteLoop(s, t2, TRUE)

RECURSIVE secondLoop(_, _, _)
secondLoop(s, t, added) ==
    IF t.s \in s.Second.bits THEN [t |-> t, added |-> added, wrap |-> FALSE]
    ELSE LET t1 == IF added THEN t ELSE [t EXCEPT !.ns = 0]
             t2 == AddSecond(t1)
         IN  IF t2.s = 0 THEN [t |-> t2, added |-> TRUE, wrap |-> TRUE]
             ELSE secondLoop(s, t2, TRUE)

\* The WRAP label: give up with the zero time past the year limit, else run
\* the loops in order, starting over whenever one wraps around.
RECURSIVE searchFrom(_, _, _, _)
searchFrom(s, t, added, yearLimit) ==
    IF t.y > yearLimit THEN ZeroTime
    ELSE LET m == monthLoop(s, t, added)
         IN  IF m.wrap THEN searchFrom(s, m.t, TRUE, yearLimit)
             ELSE LET d == dayLoop(s, m.t, m.added)
         IN  IF d.wrap THEN searchFrom(s, d.t, TRUE, yearLimit)
             ELSE LET h == hourLoop(s, d.t, d.added)
         IN  IF h.wrap THEN searchFrom(s, h.t, TRUE, yearLimit)
             ELSE LET mi == minuteLoop(s, h.t, h.added)
         IN  IF mi.wrap THEN searchFrom(s, mi.t, TRUE, yearLimit)
             ELSE LET sc == secondLoop(s, mi.t, mi.added)
         IN  IF sc.wrap THEN searchFrom(s, sc.t, TRUE, yearLimit)
             ELSE sc.t

\* The earliest possible time: t.Add(1*time.Second - t.Nanosecond()).
firstCandidate(t) == AddSecond([t EXCEPT !.ns = 0])

\* SpecSchedule.Next(t): the first activation after t, or the zero time if
\* none is found within five years.
schedNext(s, t) ==
    LET t0 == firstCandidate(t)
    IN  searchFrom(s, t0, FALSE, t0.y + 5)

(***************************************************************************)
(* Job.Next (src/main.go:173-180).                                         *)
(***************************************************************************)
\* A mutant of JobNext: the schedule is asked for the time after time.Now()
\* instead of the time after t.
JobNextFromNow(cronRule, t, nowv) ==
    LET p == Parse(cronRule)
    IN  IF p.err # "nil" THEN [t |-> nowv, err |-> p.err]
        ELSE [t |-> schedNext(p, nowv), err |-> "nil"]

\* Job.Next: a parse error is returned with time.Now(); otherwise whatever
\* the schedule's Next returns, with a nil error.
JobNext(cronRule, t, nowv) ==
    LET p == Parse(cronRule)
    IN  IF p.err # "nil" THEN [t |-> nowv, err |-> p.err]
        ELSE [t |-> schedNext(p, t), err |-> "nil"]

(***************************************************************************)
(* Jobs, the config document and the clock.                                *)
(***************************************************************************)
\* Job (src/main.go:164-171); only the fields Job.Next and Job.Name read.
Job(name, cronRule) == [RawName |-> name, CronRule |-> cronRule]

NoJob == Job("", <<>>)

\* The jobs a config document may list: one whose five wildcards make it
\* fire every second, and one written minute-first ("* * 31 2 *") whose
\* third field, 31, is no hour for cron.Parse.
JobUniverse ==
    { Job("tick",   <<Star, Star, Star, Star, Star>>),
      Job("broken", <<Star, Star, Num(31), Num(2), Star>>) }

MaxJobs == 2

JobLists == UNION { [1..n -> JobUniverse] : n \in 0..MaxJobs }

\* The config document as GetConfig meets it: unreadable (ioutil.ReadFile
\* fails), readable but not decodable (Unmarshal fails; jobs is what the
\* decoder had stored in cf when it gave up), or a valid jobs document.
Doc(readable, valid, jobs) ==
    [readable |-> readable, valid |-> valid, jobs |-> jobs]

Docs == { Doc(TRUE, TRUE, js) : js \in JobLists }
        \cup { Doc(TRUE, FALSE, js) : js \in { l \in JobLists : Len(l) <= 1 } }
        \cup { Doc(FALSE, FALSE, <<>>) }

NoDoc == Doc(FALSE, FALSE, <<>>)

\* The document the service starts with: a broken job, then a valid one.
FirstDoc ==
    Doc(TRUE, TRUE, << Job("broken", <<Star, Star, Num(31), Num(2), Star>>),
                       Job("tick",   <<Star, Star, Star, Star, Star>>) >>)

\* time.Now() when the process starts serving, half a second past 10:07:58.
ClockStart == Time(2024, 1, 1, 10, 7, 58, 1)

RECURSIVE AddSeconds(_, _)
AddSeconds(t, n) == IF n = 0 THEN t ELSE AddSeconds(AddSecond(t), n - 1)

MaxElapsed == 1
MaxRuns    == 2

\* Two /cron requests, served by two goroutines.
Requests == {1, 2}

VARIABLES
    file,       \* the config document on disk
    elapsed,    \* seconds the clock has advanced
    pc,         \* per /cron request: "idle", "loop", "done"
    cf,         \* per handler invocation: the jobs of the ConfigFile it holds
    idx,        \* per request: position of the range loop over cf.Jobs
    resp,       \* per request: the response written
    log,        \* the process log, per request: the lines its handler wrote
    runPc,      \* Job.Run: "idle", "submitting", "done"
    runJob,     \* the job being dispatched
    runCalls,   \* RegisterTaskDefinition calls made by this dispatch
    runs,       \* dispatches started
    runLog,     \* the process log: the lines Job.Run wrote
    rule, after, evalPc, res, res2   \* one evaluation of Job.Next, and a second
                                     \* one at the instant the first returned

tickVars == <<pc, cf, idx, resp, log>>
runVars  == <<runPc, runJob, runCalls, runs, runLog>>
envVars  == <<file, elapsed>>
evalVars == <<rule, after, evalPc, res, res2>>
vars == <<file, elapsed, pc, cf, idx, resp, log,
          runPc, runJob, runCalls, runs, runLog,
          rule, after, evalPc, res, res2>>

\* time.Now().
Now == AddSeconds(ClockStart, elapsed)

\* A line of the process log.
Line(kind, doc, job, t, err) ==
    [kind |-> kind, doc |-> doc, job |-> job, t |-> t, err |-> err]

NoResult == [t |-> ZeroTime, err |-> "none"]

(***************************************************************************)
(* GetConfig (src/main.go:235-253).                                        *)
(***************************************************************************)
\* GetConfig on document d: a read error is returned; the error of
\* Unmarshal is assigned to err and then dropped by "return cf, nil".
GetConfig(d) ==
    IF ~d.readable THEN [jobs |-> <<>>, err |-> "read", read |-> FALSE]
    ELSE [jobs |-> d.jobs, err |-> "nil", read |-> TRUE]

\* The two lines GetConfig logs once the file is read: the raw data and the
\* decoded ConfigFile.
ConfigLines(d, g) ==
    IF g.read
    THEN << Line("data", d, NoJob, ZeroTime, "nil"),
            Line("cf", Doc(TRUE, TRUE, g.jobs), NoJob, ZeroTime, "nil") >>
    ELSE << >>

(***************************************************************************)
(* cronHandler (src/main.go:140-158).                                      *)
(***************************************************************************)
\* A mutant of Slot: cf kept in one package-level variable.
SlotShared(r) == 1

\* cf is a local variable of the handler invocation (cf, err := GetConfig()).
Slot(r) == r

\* A mutant of AfterError: the loop is left at the first failing job.
AfterErrorBreak(i, n) == n + 1

\* "continue": after a failing job the loop goes on with the next one.
AfterError(i, n) == i + 1

\* A mutant of JobLine: the error is not looked at, every job is logged
\* with the time Job.Next returned.
JobLineUnchecked(j, x) == Line("next", NoDoc, j, x.t, "nil")

\* The line a loop iteration logs for job j with Job.Next's result x:
\* "Error getting next run: <err>", or "<job> - <next time>".
JobLine(j, x) ==
    IF x.err # "nil"
    THEN Line("next-error", NoDoc, NoJob, ZeroTime, x.err)
    ELSE Line("next", NoDoc, j, x.t, "nil")

\* The handler is entered and calls GetConfig; on an error it logs, answers
\* 500 "Bad config file" and returns.
BeginTick(r) ==
    /\ pc[r] = "idle"
    /\ LET g == GetConfig(file)
       IN  IF g.err # "nil"
           THEN /\ log' = [log EXCEPT ![r] = @ \o ConfigLines(file, g)
                            \o << Line("config-error", NoDoc, NoJob, ZeroTime, g.err) >>]
                /\ resp' = [resp EXCEPT ![r] = "500"]
                /\ pc' = [pc EXCEPT ![r] = "done"]
                /\ UNCHANGED <<cf, idx>>
           ELSE /\ log' = [log EXCEPT ![r] = @ \o ConfigLines(file, g)]
                /\ cf' = [cf EXCEPT ![Slot(r)] = g.jobs]
                /\ idx' = [idx EXCEPT ![r] = 1]
                /\ pc' = [pc EXCEPT ![r] = "loop"]
                /\ UNCHANGED resp
    /\ UNCHANGED <<envVars, runVars, evalVars>>

\* One iteration of "for _, j := range cf.Jobs".
EvalJob(r) ==
    /\ pc[r] = "loop"
    /\ idx[r] <= Len(cf[Slot(r)])
    /\ LET j == cf[Slot(r)][idx[r]]
           x == JobNext(j.CronRule, Now, Now)
       IN  /\ log' = [log EXCEPT ![r] = Append(@, JobLine(j, x))]
           /\ idx' = [idx EXCEPT ![r] =
                        IF x.err # "nil" THEN AfterError(idx[r], Len(cf[Slot(r)]))
                        ELSE idx[r] + 1]
    /\ UNCHANGED <<pc, cf, resp, envVars, runVars, evalVars>>

\* The loop is over: w.Write("ok.").
EndTick(r) ==
    /\ pc[r] = "loop"
    /\ idx[r] > Len(cf[Slot(r)])
    /\ resp' = [resp EXCEPT ![r] = "ok"]
    /\ pc' = [pc EXCEPT ![r] = "done"]
    /\ UNCHANGED <<cf, idx, log, envVars, runVars, evalVars>>

(***************************************************************************)
(* Job.Run (src/main.go:190-233) and the task-execution service.           *)
(***************************************************************************)
\* A mutant of AfterSubmitError: a failed submission is sent again.
AfterSubmitErrorRetry(calls) ==
    IF calls < 3 THEN [pc |-> "submitting", calls |-> calls + 1, logs |-> FALSE]
    ELSE [pc |-> "done", calls |-> calls, logs |-> TRUE]

\* err != nil: log "Task Def Error" and return.
AfterSubmitError(calls) == [pc |-> "done", calls |-> calls, logs |-> TRUE]

\* Run builds the container definition and calls RegisterTaskDefinition.
RunSubmit(j) ==
    /\ runPc \in {"idle", "done"}
    /\ runs < MaxRuns
    /\ runs' = runs + 1
    /\ runJob' = j
    /\ runCalls' = 1
    /\ runPc' = "submitting"
    /\ UNCHANGED <<runLog, tickVars, envVars, evalVars>>

\* The service accepts the task definition: the result is logged.
RunAccepted ==
    /\ runPc = "submitting"
    /\ runPc' = "done"
    /\ runLog' = Append(runLog, Line("taskdef", NoDoc, runJob, ZeroTime, "nil"))
    /\ UNCHANGED <<runJob, runCalls, runs, tickVars, envVars, evalVars>>

\* The service answers with an error.
RunRejected ==
    /\ runPc = "submitting"
    /\ LET a == AfterSubmitError(runCalls)
       IN  /\ runPc' = a.pc
           /\ runCalls' = a.calls
           /\ runLog' = IF a.logs
                        THEN Append(runLog, Line("taskdef-error", NoDoc, NoJob,
                                                 ZeroTime, "service"))
                        ELSE runLog
    /\ UNCHANGED <<runJob, runs, tickVars, envVars, evalVars>>

(***************************************************************************)
(* The environment: the config file is rewritten, time passes.  A rewrite  *)
(* is taken while a request is still to read the file, a clock tick while  *)
(* a request is still to read the clock: the others change nothing the     *)
(* program sees.                                                           *)
(***************************************************************************)
WriteConfig(d) ==
    /\ \E r \in Requests : pc[r] = "idle"
    /\ d # file
    /\ file' = d
    /\ UNCHANGED <<elapsed, tickVars, runVars, evalVars>>

ClockTick ==
    /\ \E r \in Requests : pc[r] # "done"
    /\ elapsed < MaxElapsed
    /\ elapsed' = elapsed + 1
    /\ UNCHANGED <<file, tickVars, runVars, evalVars>>

(***************************************************************************)
(* Spec: /cron requests while the config file is rewritten and time passes.*)
(***************************************************************************)
TickInit ==
    /\ pc = [r \in Requests |-> "idle"]
    /\ cf = [r \in Requests |-> <<>>]
    /\ idx = [r \in Requests |-> 1]
    /\ resp = [r \in Requests |-> "none"]
    /\ log = [r \in Requests |-> <<>>]

RunInit ==
    /\ runPc = "idle"
    /\ runJob = NoJob
    /\ runCalls = 0
    /\ runs = 0
    /\ runLog = <<>>

EvalOff ==
    /\ rule = <<>>
    /\ after = ZeroTime
    /\ evalPc = "off"
    /\ res = NoResult
    /\ res2 = NoResult

Init ==
    /\ file = FirstDoc
    /\ elapsed = 0
    /\ TickInit
    /\ RunInit
    /\ EvalOff

Next ==
    \/ \E r \in Requests : BeginTick(r)
    \/ \E r \in Requests : EvalJob(r)
    \/ \E r \in Requests : EndTick(r)
    \/ \E d \in Docs : WriteConfig(d)
    \/ ClockTick

Spec == Init /\ [][Next]_vars

(***************************************************************************)
(* DispatchSpec: Job.Run dispatches beside /cron requests.                 *)
(***************************************************************************)
DispatchNext ==
    \/ \E r \in Requests : BeginTick(r)
    \/ \E r \in Requests : EvalJob(r)
    \/ \E r \in Requests : EndTick(r)
    \/ \E j \in JobUniverse : RunSubmit(j)
    \/ RunAccepted
    \/ RunRejected

DispatchSpec == Init /\ [][DispatchNext]_vars

(***************************************************************************)
(* EvalSpec: Job.Next applied to one rule at one instant, and once more at *)
(* the instant it returned.                                                *)
(***************************************************************************)
\* Rules of five fields (second minute hour day-of-month month) and of six
\* (with day-of-week), and rules cron.Parse rejects.
SecondFields == { Star, Num(0) }
MinuteFields == { Star, Num(30) }
HourFields   == { Star, Num(9) }
DomFields    == { Star, Num(15), Num(29), Num(31) }
MonthFields  == { Star, Num(2) }
DowFields    == { Star, Num(1), Range(1, 5) }

FiveFieldRules ==
    { <<s, mi, h, d, mo>> : s \in SecondFields, mi \in MinuteFields,
                            h \in HourFields, d \in DomFields, mo \in MonthFields }

SixFieldRules ==
    { Append(r, w) : r \in FiveFieldRules, w \in DowFields }

RejectedRules ==
    { <<>>,
      <<Star, Star, Star, Star>>,
      <<Star, Star, Star, Star, Star, Star, Star>>,
      <<Star, Star, Num(31), Num(2), Star>>,
      <<Star, Word, Star, Star, Star>>,
      <<Star, Star, Star, Num(0), Star>>,
      <<Star, Star, Star, Star, Num(13)>>,
      <<Star, Star, Star, Star, Star, Num(7)>>,
      <<Num(60), Star, Star, Star, Star>>,
      <<Star, Range(30, 10), Star, Star, Star>>,
      <<Star, Star, Star, Star, Star, Num(-1)>> }

EvalRules == FiveFieldRules \cup SixFieldRules \cup RejectedRules

\* Reference instants: a Monday morning with and without a sub-second part,
\* ends of minute, hour, day, month and year, a Thursday 15th, the eve of a
\* leap day, and the eve of the last leap day before 2100.
EvalTimes ==
    { Time(2024, 1, 1, 10, 7, 30, 1),
      Time(2024, 1, 1, 10, 7, 0, 0),
      Time(2024, 1, 1, 10, 7, 59, 0),
      Time(2024, 1, 1, 8, 59, 59, 1),
      Time(2024, 1, 1, 9, 30, 0, 0),
      Time(2023, 12, 31, 23, 59, 59, 1),
      Time(2024, 1, 31, 23, 59, 59, 0),
      Time(2024, 2, 15, 9, 29, 59, 0),
      Time(2024, 2, 28, 12, 0, 0, 0),
      Time(2024, 3, 2, 0, 0, 0, 0),
      Time(2025, 2, 28, 23, 59, 59, 0),
      Time(2096, 2, 28, 12, 0, 0, 0) }

EvalInit ==
    /\ file = FirstDoc
    /\ elapsed = 0
    /\ TickInit
    /\ RunInit
    /\ rule \in EvalRules
    /\ after \in EvalTimes
    /\ evalPc = "start"
    /\ res = NoResult
    /\ res2 = NoResult

\* j.Next(after).
Evaluate ==
    /\ evalPc = "start"
    /\ res' = JobNext(rule, after, Now)
    /\ evalPc' = "once"
    /\ UNCHANGED <<rule, after, res2, envVars, tickVars, runVars>>

\* j.Next(n), with n the time the first call returned.
ReEvaluate ==
    /\ evalPc = "once"
    /\ res.err = "nil"
    /\ res2' = JobNext(rule, res.t, Now)
    /\ evalPc' = "twice"
    /\ UNCHANGED <<rule, after, res, envVars, tickVars, runVars>>

EvalNext == Evaluate \/ ReEvaluate

EvalSpec == EvalInit /\ [][EvalNext]_vars

(***************************************************************************)
(* Properties of Job.Next (EvalSpec).                                      *)
(***************************************************************************)
Evaluated == evalPc \in {"once", "twice"}

Parsed == Parse(rule).err = "nil"

\* A parsed schedule that names no day of any year: no day-of-week
\* restriction, and every day of month it lists is past the end of every
\* month it lists (February taken with 29 days).
NeverFires(p) ==
    /\ p.Dow.star
    /\ \A mo \in p.Month.bits : \A d \in p.Dom.bits : d > DaysIn(2024, mo)

\* The day rule as the specification words it: both day fields restricted,
\* either may match; one of them a wildcard, only the other counts.
DaySpecMatches(p, t) ==
    IF ~p.Dom.star /\ ~p.Dow.star
    THEN (t.d \in p.Dom.bits) \/ (Weekday(t) \in p.Dow.bits)
    ELSE IF ~p.Dom.star THEN t.d \in p.Dom.bits
    ELSE IF ~p.Dow.star THEN Weekday(t) \in p.Dow.bits
    ELSE TRUE

SpecMatches(p, t) ==
    /\ t.s \in p.Second.bits
    /\ t.mi \in p.Minute.bits
    /\ t.h \in p.Hour.bits
    /\ t.mo \in p.Month.bits
    /\ DaySpecMatches(p, t)

\* C7 (as claimed): for a schedule that can never fire, Job.Next returns an
\* error to its caller, not a time value.
C7_UnsatisfiableYieldsError ==
    (Evaluated /\ Parsed /\ NeverFires(Parse(rule))) => res.err # "nil"

C10_WildcardsFireNextMinute ==
    (Evaluated /\ rule = <<Star, Star, Star, Star, Star>>) =>
        /\ res.err = "nil"
        /\ res.t = AddMinute([after EXCEPT !.s = 0, !.ns = 0])

(***************************************************************************)
(* Properties of cronHandler and GetConfig (Spec).                         *)
(***************************************************************************)
IsJobLine(l) == l.kind \in {"next", "next-error"}

\* The lines the loop of request r has logged, one per iteration.
Report(r) == SelectSeq(log[r], IsJobLine)

\* Whether GetConfig of request r read the file, the document it read, and
\* the jobs of the ConfigFile it decoded (its "data" and "cf" lines).
HasLoaded(r) == Len(log[r]) >= 2 /\ log[r][1].kind = "data"
DocRead(r)   == log[r][1].doc
Loaded(r)    == log[r][2].doc.jobs

\* Every instant the clock can show.
ClockValues == { AddSeconds(ClockStart, n) : n \in 0..MaxElapsed }

Fails(j) == Parse(j.CronRule).err # "nil"

\* C1: a job whose evaluation fails does not end the loop: while the loop
\* runs, every job before the loop position has been evaluated and logged,
\* and a tick that answered "ok." has evaluated every job it loaded,
\* wherever the failing jobs stand and however many there are.
C1_FailureNeverAbortsTick ==
    \A r \in Requests :
        /\ (pc[r] = "loop") => (Len(Report(r)) = idx[r] - 1)
        /\ (pc[r] = "done" /\ resp[r] = "ok") => (Len(Report(r)) = Len(Loaded(r)))

\* C1 witness: a finished tick over two jobs whose first job failed and
\* whose second job was still evaluated.
C1_Witness ==
    /\ pc[1] = "done" /\ resp[1] = "ok"
    /\ Len(Loaded(1)) = 2
    /\ Fails(Loaded(1)[1]) /\ ~Fails(Loaded(1)[2])
    /\ Report(1)[1].kind = "next-error"
    /\ Report(1)[2].kind = "next"

C3_DecodeFailureSurfaced ==
    \A r \in Requests :
        (HasLoaded(r) /\ ~DocRead(r).valid) =>
            /\ Report(r) = << >>
            /\ resp[r] # "ok"
            /\ pc[r] = "done"

\* C6: whatever other requests do meanwhile, a tick iterates over the job
\* set it loaded itself, and what it has logged so far is what the same
\* tick logs when it runs alone over that job set: job by job, in order,
\* the line Job.Next's result gives at some instant of the clock.
C6_TicksIndependent ==
    \A r \in Requests :
        (pc[r] = "loop" \/ (pc[r] = "done" /\ resp[r] = "ok")) =>
            /\ cf[Slot(r)] = Loaded(r) \/ pc[r] = "done"
            /\ Len(Report(r)) <= Len(Loaded(r))
            /\ \A i \in 1..Len(Report(r)) :
                  \E c \in ClockValues :
                      Report(r)[i] = JobLine(Loaded(r)[i],
                                             JobNext(Loaded(r)[i].CronRule, c, c))

\* C6 witness: two requests in the middle of their loops at the same time,
\* over different job sets.
C6_Witness ==
    /\ pc[1] = "loop" /\ pc[2] = "loop"
    /\ idx[1] = 2 /\ idx[2] = 2
    /\ Len(Loaded(1)) = 2 /\ Len(Loaded(2)) = 2
    /\ Loaded(1) # Loaded(2)

(***************************************************************************)
(* Properties of Job.Run (DispatchSpec, LiveDispatchSpec).                 *)
(***************************************************************************)
\* What a tick over the first document logs at the start of the clock.
FirstDocReport ==
    [ i \in 1..Len(FirstDoc.jobs) |->
        JobLine(FirstDoc.jobs[i],
                JobNext(FirstDoc.jobs[i].CronRule, ClockStart, ClockStart)) ]

LiveDispatchSpec ==
    /\ Init /\ [][DispatchNext]_vars
    /\ \A r \in Requests : WF_vars(BeginTick(r) \/ EvalJob(r) \/ EndTick(r))

\* C5 (as claimed): a dispatch waiting for the service eventually ends.
C5_DispatchEventuallyEnds == (runPc = "submitting") ~> (runPc = "done")

====
